---- MODULE Spec2Model ----
\* A run of check_rtl_meaning.py: the command line and the file system are the
\* inputs, the lines printed on standard output, the files opened and the exit
\* status are the observable results.
EXTENDS Integers, Sequences, FiniteSets, TLC

\* ---------------------------------------------------------------- bounds
\* Number of candidate --prefix / --suffix values taken from ArgValuePool.
NumValues == 5
\* Number of candidate file contents taken from FileTextPool.
NumTexts == 5

\* ------------------------------------------------------- message strings
errorTag == "\t***Error: "
successTag == "\t***Success: "
infoTag == "\t***Info: "

noArgsMsg == errorTag \o "No input arguments were specified."

\* fileReadAttemptMsg.format(pathToFile)
fileReadAttemptMsg(pathToFile) == infoTag \o "Trying to read in " \o pathToFile

\* fileEmptyMsg.format(pathToFile)
fileEmptyMsg(pathToFile) ==
    infoTag \o "The file at " \o pathToFile
            \o " is empty... creating the dictionary from scratch"

unsupportedScriptUsageMsg ==
    errorTag \o "Only one switch (--prefix, --suffix, or --list_all) should be supplied at a time"

\* prefixSuffixNotFoundMsg.format(kind, value, file)
prefixSuffixNotFoundMsg(kind, value, file) ==
    infoTag \o "The " \o kind \o " " \o value \o " could not be found in " \o file

\* explanationMsg.format(key, explanation)
explanationMsg(key, explanation) == key \o ": " \o explanation

prefixSectionHeader ==
    "=======================================\n            Prefixes\n=======================================\n\n"

suffixSectionHeader ==
    "\n=======================================\n            Suffixes\n=======================================\n\n"

fileName == "rtl_dictionary.json"

scriptName == "check_rtl_meaning.py"

\* ------------------------------------------------- Python dict semantics
\* A dict is its sequence of <<key, value>> items in insertion order.
Keys(d) == {d[i][1] : i \in 1..Len(d)}

\* key in d
In(key, d) == key \in Keys(d)

\* d[key], for a key that is in d
Get(d, key) == d[CHOOSE i \in 1..Len(d) : d[i][1] = key][2]

\* A value that has not been assigned (None, or an unbound local) is <<>>,
\* an assigned value v is <<v>>.
None == <<>>
Some(v) == <<v>>

\* Python truth value of an argparse result: None, "" and [] are false.
Truthy(o) == o # None /\ Len(o[1]) > 0

\* ----------------------------------------------------- default dictionary
DefaultDictionary ==
    << <<"Prefixes",
         << <<"aref_", "Indicates that the signal is to do with the auto-refresh logic.">>,
            <<"mmu_", "Indicates that the signal is coming from the memory-management unit.">> >> >>,
       <<"Suffixes",
         << <<"_req", "Indicates a request line.">>,
            <<"_ctrl", "Indicates a control signal or a signal from a control block.">> >> >> >>

\* ------------------------------------------------------------ file system
\* Contents a dictionary file may have.
FileTextPool ==
    << "",
       "{",
       "{\"Prefixes\": {\"pq_\": \"Placement Queue\", \"\": \"Empty prefix\"}, \"Suffixes\": {\"_req\": \"Request line\", \"\": \"Empty suffix\"}}",
       "{}",
       "{\"Prefixes\": {\"aref_\": \"Auto refresh\"}}",
       "{\"Prefixes\": {}, \"Suffixes\": {\"_ctrl\": \"Control\", \"_req\": \"Request\"}}" >>

FileTexts == {FileTextPool[i] : i \in (1..NumTexts) \cap DOMAIN FileTextPool}

\* json.load on the contents of the file: the parsed object, or a failure.
JsonLoad(text) ==
    CASE text = FileTextPool[3] ->
           [ok |-> TRUE,
            value |-> << <<"Prefixes", << <<"pq_", "Placement Queue">>,
                                          <<"", "Empty prefix">> >> >>,
                         <<"Suffixes", << <<"_req", "Request line">>,
                                          <<"", "Empty suffix">> >> >> >>]
      [] text = FileTextPool[4] ->
           [ok |-> TRUE, value |-> << >>]
      [] text = FileTextPool[5] ->
           [ok |-> TRUE,
            value |-> << <<"Prefixes", << <<"aref_", "Auto refresh">> >> >> >>]
      [] text = FileTextPool[6] ->
           [ok |-> TRUE,
            value |-> << <<"Prefixes", << >> >>,
                         <<"Suffixes", << <<"_ctrl", "Control">>,
                                          <<"_req", "Request">> >> >> >>]
      [] OTHER -> [ok |-> FALSE, value |-> << >>]

\* The files whose presence and contents vary, by their path from the
\* working directory.
Files == {"rtl_dictionary.json", "d/rtl_dictionary.json"}

\* The file a path names: a leading "./" is the working directory.
Resolve(path) ==
    IF \E f \in Files : path = "./" \o f
    THEN CHOOSE f \in Files : path = "./" \o f
    ELSE path

\* open(pathToFile): <<text>> of the file, or <<>> when there is no such file.
OpenFile(fsys, pathToFile) ==
    IF Resolve(pathToFile) \in DOMAIN fsys THEN fsys[Resolve(pathToFile)] ELSE None

\* ----------------------------------------------------------- command line
ArgValuePool == <<"pq_", "", "aref_", "_req", "PQ_", "pq_ ", "_ctrl", "mmu_">>

ArgValues == {ArgValuePool[i] : i \in (1..NumValues) \cap DOMAIN ArgValuePool}

PathValues == {"", "./", "d/", "d"}

Argvs ==
    { <<scriptName>> \o p \o s \o l \o d :
        p \in {<<>>} \cup {<<"--prefix", v>> : v \in ArgValues},
        s \in {<<>>} \cup {<<"--suffix", v>> : v \in ArgValues},
        l \in {<<>>, <<"--list_all">>},
        d \in {<<>>} \cup {<<"--path_to_dict", v>> : v \in PathValues} }
    \cup { <<scriptName, "--prefix">>, <<scriptName, "bogus">>,
           <<scriptName, "--list_all", "--prefix", "--suffix">>,
           <<scriptName, "-h">>, <<scriptName, "--list_all", "--help">>,
           <<scriptName, "--prefix", "-h">>, <<scriptName, "--suffix", "--foo">>,
           <<scriptName, "--path_to_dict", "-d/", "--list_all">>,
           <<scriptName, "--prefix", "-1", "--suffix", "-">>,
           <<scriptName, "--pre", "pq_", "--suf=_req", "--list">>,
           <<scriptName, "--prefix=", "--path=d/", "--l">>,
           <<scriptName, "--p", "pq_">>, <<scriptName, "--list_all=1">>,
           <<scriptName, "--prefix", "pq_", "--">>,
           <<scriptName, "--prefix", "pq_", "--prefix", "aref_">>,
           <<scriptName, "--prefix", "-1\n", "--suffix", "-.5\n">>,
           <<scriptName, "--prefix=--", "--path_to_dict=--", "--list_all">>,
           <<scriptName, "--suf=--", "--prefix", "pq_">> }

\* ------------------------------------------------------------- argparse
\* The text parser.print_help() writes for this parser (80 columns), without
\* its final newline.
helpText ==
    "usage: check_rtl_meaning.py [-h] [--prefix PREFIX] [--suffix SUFFIX]\n                            [--list_all] [--path_to_dict PATH_TO_DICT]\n\nTheme for the new wallpaper.\n\noptions:\n  -h, --help            show this help message and exit\n  --prefix PREFIX       ***Info: Call the script with the --prefix switch and\n                        supply the prefix whose meaning you want to know. For\n                        example, check_rtl_meaning.py --prefix pq_\n  --suffix SUFFIX       ***Info: Call the script with the --suffix switch and\n                        supply the suffix whose meaning you want to know. For\n                        example, check_rtl_meaning.py --suffix _req\n  --list_all            ***Info: Call the script with the --list_all switch in\n                        order to see all of the prefixes and suffixes used in\n                        the RTL, as well as their explanations.\n  --path_to_dict PATH_TO_DICT\n                        ***Info: Call the script with the --path_to_dict\n                        switch if you want to search a RTL dictionary JSON\n                        file on a specific path"

\* The option strings of the parser, and the action each one names.
OptionStrings ==
    {"-h", "--help", "--prefix", "--suffix", "--list_all", "--path_to_dict"}

ActionOf(option) ==
    CASE option \in {"-h", "--help"} -> "help"
      [] option = "--prefix" -> "prefix"
      [] option = "--suffix" -> "suffix"
      [] option = "--list_all" -> "list_all"
      [] OTHER -> "path_to_dict"

StartsWith(s, p) == Len(p) <= Len(s) /\ SubSeq(s, 1, Len(p)) = p

CharAt(s, i) == SubSeq(s, i, i)

HasChar(s, c) == \E i \in 1..Len(s) : CharAt(s, i) = c

FirstIndex(s, c) ==
    CHOOSE i \in 1..Len(s) :
        CharAt(s, i) = c /\ \A j \in 1..(i - 1) : CharAt(s, j) # c

\* s.split(c, 1) for an s that contains c
Before(s, c) == SubSeq(s, 1, FirstIndex(s, c) - 1)
After(s, c) == SubSeq(s, FirstIndex(s, c) + 1, Len(s))

AllDigits(s) ==
    \A i \in 1..Len(s) :
        CharAt(s, i) \in {"0", "1", "2", "3", "4", "5", "6", "7", "8", "9"}

\* argparse's negative-number pattern ^-\d+$|^-\d*\.\d+$ (ASCII digits); the
\* $ also matches in front of one final newline.
NegativeNumber(s) ==
    /\ StartsWith(s, "-")
    /\ LET t == Tail(s)
           r == IF Len(t) > 0 /\ CharAt(t, Len(t)) = "\n"
                THEN SubSeq(t, 1, Len(t) - 1) ELSE t IN
       \/ Len(r) > 0 /\ AllDigits(r)
       \/ \E i \in 1..(Len(r) - 1) :
            /\ CharAt(r, i) = "."
            /\ AllDigits(SubSeq(r, 1, i - 1))
            /\ AllDigits(SubSeq(r, i + 1, Len(r)))

\* The options an argument abbreviates, each with its explicit argument.
OptionTuples(arg) ==
    IF StartsWith(arg, "--")
    THEN LET p == IF HasChar(arg, "=") THEN Before(arg, "=") ELSE arg
             e == IF HasChar(arg, "=") THEN Some(After(arg, "=")) ELSE None IN
         {[option |-> o, explicit |-> e] :
            o \in {o \in OptionStrings : StartsWith(o, p)}}
    ELSE {[option |-> o, explicit |-> Some(SubSeq(arg, 3, Len(arg)))] :
            o \in {o \in OptionStrings : o = SubSeq(arg, 1, 2)}}
         \cup {[option |-> o, explicit |-> None] :
            o \in {o \in OptionStrings :
                     o # SubSeq(arg, 1, 2) /\ StartsWith(o, arg)}}

\* How the parser classes one argument: "A" a plain argument, "O" an option
\* (option = "" when no option of the parser matches), "E" an ambiguous
\* abbreviation.
ParseOptional(arg) ==
    LET plain == [kind |-> "A", option |-> "", explicit |-> None] IN
    IF arg = "" \/ ~StartsWith(arg, "-") THEN plain
    ELSE IF arg \in OptionStrings
    THEN [kind |-> "O", option |-> arg, explicit |-> None]
    ELSE IF Len(arg) = 1 THEN plain
    ELSE IF HasChar(arg, "=") /\ Before(arg, "=") \in OptionStrings
    THEN [kind |-> "O", option |-> Before(arg, "="),
          explicit |-> Some(After(arg, "="))]
    ELSE LET m == OptionTuples(arg) IN
         IF Cardinality(m) > 1
         THEN [kind |-> "E", option |-> "", explicit |-> None]
         ELSE IF Cardinality(m) = 1
         THEN LET t == CHOOSE t \in m : TRUE IN
              [kind |-> "O", option |-> t.option, explicit |-> t.explicit]
         ELSE IF NegativeNumber(arg) \/ HasChar(arg, " ") THEN plain
         ELSE [kind |-> "O", option |-> "", explicit |-> None]

\* The arguments in front of the first "--".
RECURSIVE BeforeDashDash(_)
BeforeDashDash(tokens) ==
    IF tokens = <<>> \/ Head(tokens) = "--" THEN <<>>
    ELSE <<Head(tokens)>> \o BeforeDashDash(Tail(tokens))

EmptyNamespace ==
    [prefix |-> None, suffix |-> None, list_all |-> FALSE, path_to_dict |-> None]

\* The value stored for the one argument string of an option: a "--" is
\* removed from the argument strings first, which leaves the empty list.
GetValues(argString) == IF argString = "--" THEN <<>> ELSE argString

ParseError(ns) == [ok |-> FALSE, help |-> FALSE, ns |-> ns]

\* The arguments consumed left to right; extras tells whether an argument no
\* option took has been met (reported once every argument has been consumed).
RECURSIVE ConsumeArgs(_, _, _)
ConsumeArgs(tokens, ns, extras) ==
    IF tokens = <<>>
    THEN IF extras THEN ParseError(ns)
         ELSE [ok |-> TRUE, help |-> FALSE, ns |-> ns]
    ELSE IF Head(tokens) = "--" THEN ParseError(ns)
    ELSE LET o == ParseOptional(Head(tokens))
             action == ActionOf(o.option) IN
         IF o.kind = "A" \/ o.option = ""
         THEN ConsumeArgs(Tail(tokens), ns, TRUE)
         ELSE IF action = "help"
         THEN IF \/ o.explicit = None
                 \/ /\ o.option = "-h"
                    /\ o.explicit[1] # ""
                    /\ \A i \in 1..Len(o.explicit[1]) : CharAt(o.explicit[1], i) = "h"
              THEN [ok |-> FALSE, help |-> TRUE, ns |-> ns]
              ELSE ParseError(ns)
         ELSE IF action = "list_all"
         THEN IF o.explicit = None
              THEN ConsumeArgs(Tail(tokens), [ns EXCEPT !.list_all = TRUE], extras)
              ELSE ParseError(ns)
         ELSE IF o.explicit # None
         THEN ConsumeArgs(Tail(tokens),
                          [ns EXCEPT ![action] = Some(GetValues(o.explicit[1]))],
                          extras)
         ELSE IF \/ Len(tokens) < 2
                 \/ tokens[2] = "--"
                 \/ ParseOptional(tokens[2]).kind # "A"
         THEN ParseError(ns)
         ELSE ConsumeArgs(Tail(Tail(tokens)),
                          [ns EXCEPT ![action] = Some(GetValues(tokens[2]))],
                          extras)

\* parser.parse_args() on the arguments after the script name: the namespace,
\* the help request, or a usage error.  An ambiguous abbreviation is an error
\* before anything is consumed.
ParseArgs(tokens, ns) ==
    IF \E i \in 1..Len(BeforeDashDash(tokens)) :
         ParseOptional(tokens[i]).kind = "E"
    THEN ParseError(ns)
    ELSE ConsumeArgs(tokens, ns, FALSE)

parsingArguments(av) == ParseArgs(Tail(av), EmptyNamespace)

\* ----------------------------------------------------------------- loader
\* readInDictionary(pathToFile): what it prints, and the dictionary it
\* returns or the exception that leaves it.
\* Variant: open() inside the try, so that a missing file falls back too.
ReadOpenInsideTry(fsys, pathToFile) ==
    LET f == OpenFile(fsys, pathToFile) IN
    IF f = None \/ ~JsonLoad(f[1]).ok
    THEN [raised |-> "",
          printed |-> <<fileReadAttemptMsg(pathToFile), fileEmptyMsg(pathToFile)>>,
          dictionary |-> DefaultDictionary]
    ELSE [raised |-> "",
          printed |-> <<fileReadAttemptMsg(pathToFile)>>,
          dictionary |-> JsonLoad(f[1]).value]

\* The function as written: open() before the try, json.load inside it.
readInDictionary(fsys, pathToFile) ==
    LET f == OpenFile(fsys, pathToFile) IN
    IF f = None
    THEN [raised |-> "FileNotFoundError", printed |-> <<>>, dictionary |-> <<>>]
    ELSE IF JsonLoad(f[1]).ok
    THEN [raised |-> "",
          printed |-> <<fileReadAttemptMsg(pathToFile)>>,
          dictionary |-> JsonLoad(f[1]).value]
    ELSE [raised |-> "",
          printed |-> <<fileReadAttemptMsg(pathToFile), fileEmptyMsg(pathToFile)>>,
          dictionary |-> DefaultDictionary]

\* ---------------------------------------------------------------- listing
\* outputMsg after "for key, value in d.items(): outputMsg += f'{key}: {value}\n'"
RECURSIVE AddItems(_, _)
AddItems(outputMsg, d) ==
    IF d = <<>> THEN outputMsg
    ELSE AddItems(outputMsg \o Head(d)[1] \o ": " \o Head(d)[2] \o "\n", Tail(d))

\* Variant: the two sections in the other order.
ListingSuffixesFirst(prefixList, suffixList) ==
    AddItems(AddItems(suffixSectionHeader, suffixList) \o prefixSectionHeader,
             prefixList)

\* The string the listing prints.
ListingMsg(prefixList, suffixList) ==
    AddItems(AddItems(prefixSectionHeader, prefixList) \o suffixSectionHeader,
             suffixList)

\* ------------------------------------------------------------------ state
VARIABLES
    argv,               \* sys.argv
    fs,                 \* the files: path |-> <<text>>, or <<>> when absent
    pc,                 \* the statement the run is at
    args,               \* the parsed namespace, <<>> before parsing
    printOutDictionary, lookUpPrefix, lookUpSuffix, pathSupplied,
    prefix, suffix, filePath,   \* locals, <<>> while unbound
    rtlDictionary,      \* <<the loaded dictionary>>, <<>> while unbound
    out,                \* the strings printed on standard output, in order
    opened,             \* the paths passed to open(), in order
    err,                \* the exception that ended the run, "" if none
    exitCode            \* <<status>> once the process has ended

vars == <<argv, fs, pc, args, printOutDictionary, lookUpPrefix, lookUpSuffix,
          pathSupplied, prefix, suffix, filePath, rtlDictionary, out, opened,
          err, exitCode>>

flagVars == <<printOutDictionary, lookUpPrefix, lookUpSuffix, pathSupplied,
              prefix, suffix, filePath>>

Init ==
    /\ argv \in Argvs
    /\ fs \in [Files -> {None} \cup {Some(t) : t \in FileTexts}]
    /\ pc = "start"
    /\ args = None
    /\ printOutDictionary = FALSE
    /\ lookUpPrefix = FALSE
    /\ lookUpSuffix = FALSE
    /\ pathSupplied = FALSE
    /\ prefix = None
    /\ suffix = None
    /\ filePath = None
    /\ rtlDictionary = None
    /\ out = <<>>
    /\ opened = <<>>
    /\ err = ""
    /\ exitCode = None

\* An exception nobody catches ends the process with status 1.
Crash(exception) ==
    /\ pc' = "done"
    /\ err' = exception
    /\ exitCode' = Some(1)

\* ---------------------------------------------------------------- actions
\* Variant: the message without the exit().
CheckArgumentsNoExit ==
    /\ pc = "start"
    /\ out' = IF Len(argv) = 1 THEN Append(out, noArgsMsg) ELSE out
    /\ pc' = "parse"
    /\ UNCHANGED <<argv, fs, args, flagVars, rtlDictionary, opened, err, exitCode>>

\* if len(sys.argv) == 1: print(noArgsMsg); exit()
CheckArguments ==
    /\ pc = "start"
    /\ IF Len(argv) = 1
       THEN /\ out' = Append(out, noArgsMsg)
            /\ pc' = "done"
            /\ exitCode' = Some(0)
       ELSE /\ pc' = "parse"
            /\ UNCHANGED <<out, exitCode>>
    /\ UNCHANGED <<argv, fs, args, flagVars, rtlDictionary, opened, err>>

\* args = parsingArguments(); -h/--help prints the help text and ends the
\* process with status 0, a usage error ends it with status 2
ParsingArguments ==
    /\ pc = "parse"
    /\ LET r == parsingArguments(argv) IN
       IF r.ok
       THEN /\ args' = Some(r.ns)
            /\ pc' = "flags"
            /\ UNCHANGED <<out, err, exitCode>>
       ELSE IF r.help
       THEN /\ out' = Append(out, helpText)
            /\ pc' = "done"
            /\ exitCode' = Some(0)
            /\ UNCHANGED <<args, err>>
       ELSE /\ pc' = "done"
            /\ err' = "usage"
            /\ exitCode' = Some(2)
            /\ UNCHANGED <<args, out>>
    /\ UNCHANGED <<argv, fs, flagVars, rtlDictionary, opened>>

\* The four switch checks and the choice of the directory.
SelectSwitches ==
    /\ pc = "flags"
    /\ printOutDictionary' = args[1].list_all
    /\ lookUpPrefix' = Truthy(args[1].prefix)
    /\ prefix' = IF Truthy(args[1].prefix) THEN args[1].prefix ELSE None
    /\ lookUpSuffix' = Truthy(args[1].suffix)
    /\ suffix' = IF Truthy(args[1].suffix) THEN args[1].suffix ELSE None
    /\ pathSupplied' = Truthy(args[1].path_to_dict)
    /\ filePath' = IF Truthy(args[1].path_to_dict)
                   THEN args[1].path_to_dict
                   ELSE Some("./")
    /\ pc' = "read"
    /\ UNCHANGED <<argv, fs, args, rtlDictionary, out, opened, err, exitCode>>

\* rtlDictionary = readInDictionary(filePath + fileName)
ReadInDictionary ==
    /\ pc = "read"
    /\ LET pathToFile == filePath[1] \o fileName
           r == readInDictionary(fs, pathToFile) IN
       /\ opened' = Append(opened, pathToFile)
       /\ out' = out \o r.printed
       /\ IF r.raised # ""
          THEN /\ Crash(r.raised)
               /\ UNCHANGED rtlDictionary
          ELSE /\ rtlDictionary' = Some(r.dictionary)
               /\ pc' = "prefix"
               /\ UNCHANGED <<err, exitCode>>
    /\ UNCHANGED <<argv, fs, args, flagVars>>

\* if (lookUpPrefix): ...
PrefixLookup ==
    /\ pc = "prefix"
    /\ IF ~lookUpPrefix
       THEN /\ pc' = "suffix"
            /\ UNCHANGED <<out, err, exitCode>>
       ELSE IF ~In("Prefixes", rtlDictionary[1])
       THEN /\ Crash("KeyError")
            /\ UNCHANGED out
       ELSE LET prefixList == Get(rtlDictionary[1], "Prefixes") IN
            /\ out' = Append(out,
                        IF In(prefix[1], prefixList)
                        THEN explanationMsg(prefix[1], Get(prefixList, prefix[1]))
                        ELSE prefixSuffixNotFoundMsg("prefix", prefix[1], fileName))
            /\ pc' = "suffix"
            /\ UNCHANGED <<err, exitCode>>
    /\ UNCHANGED <<argv, fs, args, flagVars, rtlDictionary, opened>>

\* if (lookUpSuffix): ...
SuffixLookup ==
    /\ pc = "suffix"
    /\ IF ~lookUpSuffix
       THEN /\ pc' = "list"
            /\ UNCHANGED <<out, err, exitCode>>
       ELSE IF ~In("Suffixes", rtlDictionary[1])
       THEN /\ Crash("KeyError")
            /\ UNCHANGED out
       ELSE LET suffixList == Get(rtlDictionary[1], "Suffixes") IN
            /\ out' = Append(out,
                        IF In(suffix[1], suffixList)
                        THEN explanationMsg(suffix[1], Get(suffixList, suffix[1]))
                        ELSE prefixSuffixNotFoundMsg("suffix", suffix[1], fileName))
            /\ pc' = "list"
            /\ UNCHANGED <<err, exitCode>>
    /\ UNCHANGED <<argv, fs, args, flagVars, rtlDictionary, opened>>

\* if (printOutDictionary): ...
ListAll ==
    /\ pc = "list"
    /\ IF ~printOutDictionary
       THEN /\ pc' = "exit"
            /\ UNCHANGED <<out, err, exitCode>>
       ELSE IF ~In("Prefixes", rtlDictionary[1]) \/ ~In("Suffixes", rtlDictionary[1])
       THEN /\ Crash("KeyError")
            /\ UNCHANGED out
       ELSE /\ out' = Append(out, ListingMsg(Get(rtlDictionary[1], "Prefixes"),
                                             Get(rtlDictionary[1], "Suffixes")))
            /\ pc' = "exit"
            /\ UNCHANGED <<err, exitCode>>
    /\ UNCHANGED <<argv, fs, args, flagVars, rtlDictionary, opened>>

\* exit()
Exit ==
    /\ pc = "exit"
    /\ pc' = "done"
    /\ exitCode' = Some(0)
    /\ UNCHANGED <<argv, fs, args, flagVars, rtlDictionary, out, opened, err>>

Next ==
    \/ CheckArguments
    \/ ParsingArguments
    \/ SelectSwitches
    \/ ReadInDictionary
    \/ PrefixLookup
    \/ SuffixLookup
    \/ ListAll
    \/ Exit

Spec == Init /\ [][Next]_vars

\* ----------------------------------------------------------------- claims
\* What the command line asked for: the switches the parser found on it and
\* the value each one was given (the last one when a switch is repeated).
SwitchValue(switch) ==
    CASE switch = "--prefix" -> args[1].prefix
      [] switch = "--suffix" -> args[1].suffix
      [] switch = "--path_to_dict" -> args[1].path_to_dict
      [] OTHER -> IF args[1].list_all THEN <<"">> ELSE <<>>

Supplied(switch) == args # <<>> /\ SwitchValue(switch) # <<>>

\* No value was given as "=--" (such a value reaches the script as an empty
\* list, not as a string).
StringValues ==
    \A i \in 2..Len(argv) :
        ~(HasChar(argv[i], "=") /\ After(argv[i], "=") = "--")

ValueOf(switch) == SwitchValue(switch)[1]

\* The claims about the value of a switch are stated for the runs where
\* StringValues holds.

\* The loaded dictionary and its sections.
Loaded == rtlDictionary # <<>>

HasSection(name) == Loaded /\ name \in Keys(rtlDictionary[1])

Section(name) == Get(rtlDictionary[1], name)

TwoSections == HasSection("Prefixes") /\ HasSection("Suffixes")

\* The number of lines the loader printed before the first lookup.
LoaderLines ==
    IF Len(out) >= 2 /\ opened # <<>>
       /\ out[2] = "\t***Info: The file at " \o opened[1]
                     \o " is empty... creating the dictionary from scratch"
    THEN 2 ELSE 1

\* The line a lookup of value in a section has to print.
ExpectedLookup(kind, section, value) ==
    IF \E i \in 1..Len(section) : section[i][1] = value
    THEN value \o ": "
           \o section[CHOOSE i \in 1..Len(section) : section[i][1] = value][2]
    ELSE "\t***Info: The " \o kind \o " " \o value
           \o " could not be found in rtl_dictionary.json"

\* The entries d[1..i] of a section, one "key: explanation" line each.
RECURSIVE EntryLines(_, _)
EntryLines(d, i) ==
    IF i = 0 THEN ""
    ELSE EntryLines(d, i - 1) \o d[i][1] \o ": " \o d[i][2] \o "\n"

\* The block a listing has to print: one line for each key of each section.
ExpectedListing(prefixes, suffixes) ==
    "=======================================\n            Prefixes\n=======================================\n\n"
    \o EntryLines(prefixes, Cardinality(Keys(prefixes)))
    \o "\n=======================================\n            Suffixes\n=======================================\n\n"
    \o EntryLines(suffixes, Cardinality(Keys(suffixes)))

\* C1: right after the prefix step of a run invoked with --prefix k, where k
\* is a key of the Prefixes section of the loaded dictionary, the line printed
\* last is "k: D.Prefixes[k]" and it is the only line after the loader's.
C1_PrefixFoundPrinted ==
    (/\ pc = "suffix"
     /\ StringValues
     /\ HasSection("Prefixes")
     /\ Supplied("--prefix")
     /\ ValueOf("--prefix") \in Keys(Section("Prefixes")))
    => /\ Len(out) = LoaderLines + 1
       /\ out[Len(out)] = ValueOf("--prefix") \o ": "
                            \o Get(Section("Prefixes"), ValueOf("--prefix"))

\* C2: right after the prefix step of a run invoked with --prefix k, where k
\* is not a key of the Prefixes section, the only line after the loader's is
\* the not-found message naming "prefix", k and rtl_dictionary.json.
C2_PrefixNotFoundPrinted ==
    (/\ pc = "suffix"
     /\ StringValues
     /\ HasSection("Prefixes")
     /\ Supplied("--prefix")
     /\ ValueOf("--prefix") \notin Keys(Section("Prefixes")))
    => /\ Len(out) = LoaderLines + 1
       /\ out[Len(out)] = "\t***Info: The prefix " \o ValueOf("--prefix")
                            \o " could not be found in rtl_dictionary.json"

\* C3: right after the suffix step of a run invoked with --suffix s, the line
\* printed last is "s: D.Suffixes[s]" when s is a key of the Suffixes section
\* and the not-found message naming "suffix" otherwise, whatever the Prefixes
\* section holds.
C3_SuffixLookupSymmetric ==
    (/\ pc = "list"
     /\ StringValues
     /\ HasSection("Suffixes")
     /\ Supplied("--suffix"))
    => /\ Len(out) = LoaderLines + (IF lookUpPrefix THEN 1 ELSE 0) + 1
       /\ out[Len(out)] =
            ExpectedLookup("suffix", Section("Suffixes"), ValueOf("--suffix"))

\* C4: a finished run invoked with --list_all on a two-section dictionary has
\* printed, last and exactly once, the block made of the Prefixes header, one
\* "key: explanation" line for each prefix key in order, the Suffixes header
\* and one line for each suffix key in order.
C4_ListAllBlock ==
    (/\ pc \in {"exit", "done"}
     /\ Supplied("--list_all")
     /\ TwoSections)
    => LET block == ExpectedListing(Section("Prefixes"), Section("Suffixes")) IN
       /\ out # <<>>
       /\ out[Len(out)] = block
       /\ Cardinality({i \in 1..Len(out) : out[i] = block}) = 1

C4_Witness ==
    /\ pc = "done"
    /\ Supplied("--list_all")
    /\ TwoSections
    /\ Len(Section("Prefixes")) >= 2
    /\ Len(Section("Suffixes")) >= 2
    /\ Section("Prefixes")[1][1] = "pq_"

\* The file that was opened exists and json.load fails on it.
Unparseable ==
    /\ opened # <<>>
    /\ OpenFile(fs, opened[1]) # <<>>
    /\ ~JsonLoad(OpenFile(fs, opened[1])[1]).ok

\* The lines the steps after the loader have to print against dictionary d.
ExpectedSteps(d, doPrefix, p, doSuffix, s, doList) ==
    (IF doPrefix THEN <<ExpectedLookup("prefix", Get(d, "Prefixes"), p)>> ELSE <<>>)
    \o (IF doSuffix THEN <<ExpectedLookup("suffix", Get(d, "Suffixes"), s)>> ELSE <<>>)
    \o (IF doList THEN <<ExpectedListing(Get(d, "Prefixes"), Get(d, "Suffixes"))>>
        ELSE <<>>)

\* C5: when the opened file is empty or not JSON, the loader has printed the
\* read-attempt and the file-empty message and the dictionary is the default
\* one (aref_, mmu_ / _req, _ctrl with their explanations); the run goes on
\* to status 0 and every lookup and listing the command line requested is
\* answered from it.
C5_DefaultOnParseFailure ==
    Unparseable =>
       /\ err = ""
       /\ Loaded
       /\ rtlDictionary[1] =
            << <<"Prefixes",
                 << <<"aref_", "Indicates that the signal is to do with the auto-refresh logic.">>,
                    <<"mmu_", "Indicates that the signal is coming from the memory-management unit.">> >> >>,
               <<"Suffixes",
                 << <<"_req", "Indicates a request line.">>,
                    <<"_ctrl", "Indicates a control signal or a signal from a control block.">> >> >> >>
       /\ Len(out) >= 2
       /\ out[1] = "\t***Info: Trying to read in " \o opened[1]
       /\ out[2] = "\t***Info: The file at " \o opened[1]
                     \o " is empty... creating the dictionary from scratch"
       /\ (pc = "done" /\ StringValues) =>
            /\ exitCode = <<0>>
            /\ SubSeq(out, 3, Len(out)) =
                 ExpectedSteps(rtlDictionary[1],
                    Supplied("--prefix"),
                    IF Supplied("--prefix") THEN ValueOf("--prefix") ELSE "",
                    Supplied("--suffix"),
                    IF Supplied("--suffix") THEN ValueOf("--suffix") ELSE "",
                    Supplied("--list_all"))

\* C6: a run with no arguments has, once past its first statement, printed
\* the no-arguments message and nothing else and ended with status 0, without
\* parsing, opening a file or loading a dictionary.
C6_NoArgumentsExit ==
    (Len(argv) = 1 /\ pc # "start")
    => /\ pc = "done"
       /\ exitCode = <<0>>
       /\ err = ""
       /\ out = <<"\t***Error: No input arguments were specified.">>
       /\ args = <<>>
       /\ opened = <<>>
       /\ rtlDictionary = <<>>

C6_Witness == Len(argv) = 1 /\ pc = "done"

\* C7: when the file that was opened does not exist, the run has ended with
\* the file-access error and status 1, nothing was printed, no dictionary
\* (the default one included) was bound and the file was opened once.
C7_MissingFileAborts ==
    (opened # <<>> /\ OpenFile(fs, opened[1]) = <<>>)
    => /\ pc = "done"
       /\ err = "FileNotFoundError"
       /\ exitCode = <<1>>
       /\ out = <<>>
       /\ rtlDictionary = <<>>
       /\ Len(opened) = 1

C7_Witness ==
    /\ err = "FileNotFoundError"
    /\ StringValues
    /\ Supplied("--prefix") /\ ValueOf("--prefix") = "aref_"
    /\ Supplied("--list_all")

\* C8: a run that loaded the dictionary ends without an error having printed,
\* after the loader's lines, exactly one result for each of --prefix, --suffix
\* and --list_all that was supplied, in that order, and never the
\* unsupported-usage message.
C8_SwitchesIndependent ==
    (pc = "done" /\ Loaded /\ StringValues)
    => /\ err = ""
       /\ Len(out) = LoaderLines
                       + (IF Supplied("--prefix") THEN 1 ELSE 0)
                       + (IF Supplied("--suffix") THEN 1 ELSE 0)
                       + (IF Supplied("--list_all") THEN 1 ELSE 0)
       /\ TwoSections =>
            SubSeq(out, LoaderLines + 1, Len(out)) =
              ExpectedSteps(rtlDictionary[1],
                 Supplied("--prefix"),
                 IF Supplied("--prefix") THEN ValueOf("--prefix") ELSE "",
                 Supplied("--suffix"),
                 IF Supplied("--suffix") THEN ValueOf("--suffix") ELSE "",
                 Supplied("--list_all"))
       /\ \A i \in 1..Len(out) :
            out[i] # "\t***Error: Only one switch (--prefix, --suffix, or --list_all) should be supplied at a time"

\* C9: whenever the loader has returned, the dictionary has a Prefixes and a
\* Suffixes section, and no later step fails reading its section.
C9_LoaderReturnsTwoSections ==
    Loaded => (TwoSections /\ err # "KeyError")

\* C10: the path opened is the --path_to_dict value when that switch was
\* supplied, and "./" otherwise, followed directly by rtl_dictionary.json;
\* the file is opened once, and before anything else is printed.
C10_PathIsConcatenation ==
    /\ (opened # <<>> /\ StringValues) =>
         opened = << (IF Supplied("--path_to_dict")
                      THEN ValueOf("--path_to_dict") ELSE "./")
                     \o "rtl_dictionary.json" >>
    /\ (opened = <<>> /\ args # <<>>) => out = <<>>
    /\ (pc \in {"prefix", "suffix", "list", "exit"}) => Len(opened) = 1

====
